---- MODULE Spec2Model ----
(***************************************************************************)
(* Media-management backend: the request handlers of routes_auth.py and    *)
(* routes_media.py over a shared document store (users, media) and a       *)
(* shared blob store.  The handlers keep no state of their own; the state  *)
(* is the two stores plus the requests in flight, each with the place its  *)
(* handler has reached.  A handler is split at its collaborator calls:     *)
(* every call into the document store or the blob store is one step, and   *)
(* steps of different requests interleave.  The stores are external        *)
(* services shared by every server process, so two requests served by two  *)
(* processes interleave at these calls (inside one event loop a handler    *)
(* has no await between its store calls).  A call that writes to a store   *)
(* either returns or raises; a lookup returns.                             *)
(***************************************************************************)
EXTENDS Integers, Sequences, FiniteSets, Bags, TLC

VARIABLES
    users,      \* document store: the set of persisted account documents
    media,      \* document store: the set of persisted media documents
    blobs,      \* blob store: the set of stored blob names
    nextUser,   \* source of fresh account ids (uuid4)
    nextBlob,   \* source of fresh storage-assigned blob names
    now,        \* the clock read by datetime.utcnow()
    req,        \* the bag of requests in flight, each with its handler's locals
    last,       \* the response the step just taken has sent, if it sent one
    created,    \* history: id and primary blob of every media record persisted
    deleted     \* history: media ids whose delete responded 204

vars == <<users, media, blobs, nextUser, nextBlob, now, req, last,
          created, deleted>>

authVars  == <<users, nextUser>>
mediaVars == <<media, blobs, nextBlob, now, created, deleted>>

(***************************************************************************)
(* Bounds of the model.                                                    *)
(***************************************************************************)
NumProcs == 2   \* server processes handling requests concurrently
MaxUsers == 3   \* account documents ever created
MaxBlobs == 2   \* blob names ever assigned by the blob store
MaxClock == 2   \* timestamps ever read

Emails    == {"a@x", "b@x"}
Passwords == {"pw1", "pw2"}
Callers   == {"A", "B"}     \* user ids that valid access tokens resolve to
\* The caller whose uploads are followed.  The handlers only compare user ids
\* for equality, so B asking for A's records stands for either direction.
Uploader  == "A"

(***************************************************************************)
(* Python values, tagged by type.                                          *)
(***************************************************************************)
PyNone     == [t |-> "None"]
PyStr(s)   == [t |-> "str", v |-> s]
PyList(l)  == [t |-> "list", v |-> l]
PyDict     == [t |-> "dict"]
PyInt(n)   == [t |-> "int", v |-> n]
IsoTime(n) == [t |-> "isotime", v |-> n]

NoResponse == [op |-> "none"]

\* A server process is free to take a new request.
Accepts == BagCardinality(req) < NumProcs

InFlight == BagToSet(req)

Started(r) == req (+) SetToBag({r})

Finished(r) == req (-) SetToBag({r})

Moved(r, r2) == (req (-) SetToBag({r})) (+) SetToBag({r2})

Call(name, arg, ok) == [call |-> name, arg |-> arg, ok |-> ok]

(***************************************************************************)
(* auth module (not part of the handlers): password hashing and tokens.    *)
(***************************************************************************)
get_password_hash(password) == <<"hash", password>>

verify_password(password, hashed) == hashed = get_password_hash(password)

create_access_token(sub, email) == [t |-> "jwt", sub |-> sub, email |-> email]

(***************************************************************************)
(* database module: user queries.                                          *)
(***************************************************************************)
UsersByEmail(email) == {u \in users : u.email = email}

get_user_by_email(email) ==
    IF UsersByEmail(email) = {} THEN PyNone
    ELSE CHOOSE u \in UsersByEmail(email) :
             \A w \in UsersByEmail(email) : u.id <= w.id

(***************************************************************************)
(* POST /auth/register                                                     *)
(***************************************************************************)
AuthResponse(op, email, password, status, detail, token, log) ==
    [op |-> op, email |-> email, password |-> password, status |-> status,
     detail |-> detail, token |-> token, log |-> log]

\* Lines 28-37: the lookup by email; an existing account ends the request.
register_account_lookup(email, password) ==
    /\ Accepts
    /\ LET existing_account == get_user_by_email(email)
           log == <<Call("get_user_by_email", email, TRUE)>>
       IN  IF existing_account # PyNone
           THEN /\ last' = AuthResponse("register", email, password, 400,
                               "User with this email already exists", PyNone, log)
                               @@ [existed |-> UsersByEmail(email) # {}]
                /\ req' = req
           ELSE /\ req' = Started(
                               [op |-> "register", pc |-> "create_user",
                                email |-> email, password |-> password,
                                existed |-> UsersByEmail(email) # {},
                                log |-> log])
                /\ last' = NoResponse
    /\ UNCHANGED <<authVars, mediaVars>>

\* Lines 39-74: the account document, create_user, the token and the response.
register_account_create(r, outcome) ==
    /\ r \in InFlight
    /\ r.op = "register"
    /\ r.pc = "create_user"
    /\ nextUser <= MaxUsers
    /\ LET account_id == nextUser
           account_doc == [id |-> account_id, email |-> r.email,
                           hashed_password |-> get_password_hash(r.password)]
           log == Append(r.log, Call("create_user", account_id, outcome = "ok"))
           history == [existed |-> r.existed]
       IN  /\ nextUser' = nextUser + 1
           /\ \/ /\ outcome = "ok"
                 /\ users' = users \cup {account_doc}
                 /\ last' = AuthResponse("register", r.email, r.password, 200, "",
                                create_access_token(account_id, r.email), log)
                                @@ history
              \/ /\ outcome = "ValueError"
                 /\ users' = users
                 /\ last' = AuthResponse("register", r.email, r.password, 400,
                                "str(e)", PyNone, log) @@ history
              \/ /\ outcome = "Exception"
                 /\ users' = users
                 /\ last' = AuthResponse("register", r.email, r.password, 500,
                                "Failed to register user: str(e)", PyNone, log)
                                @@ history
    /\ req' = Finished(r)
    /\ UNCHANGED mediaVars

(***************************************************************************)
(* POST /auth/login                                                        *)
(***************************************************************************)
\* A response that names the field that was wrong.
LoginBadPasswordLeaky == [status |-> 401, detail |-> "Invalid password"]

\* Lines 100-103: the response to a password that does not verify.
LoginBadPassword == [status |-> 401, detail |-> "Invalid email or password"]

\* Lines 89-92: the response to an email with no account.
LoginNoAccount == [status |-> 401, detail |-> "Invalid email or password"]

\* Lines 84-117: the status, detail and token of the response.
login_account(email, password) ==
    LET account_record == get_user_by_email(email)
    IN  IF account_record = PyNone
        THEN [status |-> LoginNoAccount.status, detail |-> LoginNoAccount.detail,
              token |-> PyNone]
        ELSE IF ~verify_password(password, account_record.hashed_password)
        THEN [status |-> LoginBadPassword.status,
              detail |-> LoginBadPassword.detail, token |-> PyNone]
        ELSE [status |-> 200, detail |-> "",
              token |-> create_access_token(account_record.id,
                                            account_record.email)]

\* History only: which of the two checks of login_account turned the login down.
LoginCause(email, password) ==
    IF UsersByEmail(email) = {} THEN "no_account"
    ELSE IF get_user_by_email(email).hashed_password
                # get_password_hash(password) THEN "bad_password"
    ELSE "none"

login_account_request(email, password) ==
    /\ Accepts
    /\ LET resp == login_account(email, password)
       IN  last' = AuthResponse("login", email, password, resp.status,
                       resp.detail, resp.token,
                       <<Call("get_user_by_email", email, TRUE)>>)
                   @@ [cause |-> LoginCause(email, password)]
    /\ UNCHANGED <<req, authVars, mediaVars>>

(***************************************************************************)
(* storage, media_helpers, utils and database modules, as the media        *)
(* handlers use them.                                                       *)
(***************************************************************************)
\* The retrieval URL the blob store issues for a stored name.
BlobUrl(name) == [t |-> "url", blob |-> name]

\* The stored name of the thumbnail a media document records; 0 (falsy) if none.
extract_thumbnail_blob_identifier(media_record) ==
    IF media_record.thumbnailUrl = PyNone THEN 0
    ELSE media_record.thumbnailUrl.blob

MediaById(mid) == {d \in media : d.id = mid}

NotFound == [ok |-> FALSE, status |-> 404, detail |-> "Media not found"]

\* Fetch by id; absent or owned by another user raises NotFound.
fetch_and_verify_media_ownership(media_id, user_id) ==
    IF MediaById(media_id) = {} THEN NotFound
    ELSE LET d == CHOOSE x \in MediaById(media_id) : TRUE
         IN  IF d.userId # user_id THEN NotFound
             ELSE [ok |-> TRUE, doc |-> d]

\* History only: the owner of the record at the time of the ownership check.
OwnerOf(mid) ==
    IF MediaById(mid) = {} THEN "absent"
    ELSE (CHOOSE x \in MediaById(mid) : TRUE).userId

Files == [content_type : {"image/jpeg", "video/mp4", "text/plain"},
          size : {"within_limit", "over_limit"}]

\* The media kind of an allowed type; any other type raises BadRequest.
validate_file_type(file) ==
    CASE file.content_type = "image/jpeg" -> [ok |-> TRUE, kind |-> "image"]
      [] file.content_type = "video/mp4"  -> [ok |-> TRUE, kind |-> "video"]
      [] OTHER -> [ok |-> FALSE, status |-> 400,
                   detail |-> "Unsupported file type"]

\* The size of a file within the maximum; a larger file raises BadRequest.
validate_file_size(file) ==
    IF file.size = "within_limit" THEN [ok |-> TRUE]
    ELSE [ok |-> FALSE, status |-> 400, detail |-> "File too large"]

\* The document with the fields of the payload replaced.
MergeUpdates(doc, updates) ==
    [k \in DOMAIN doc |-> IF k \in DOMAIN updates THEN updates[k] ELSE doc[k]]

(***************************************************************************)
(* POST /media                                                             *)
(***************************************************************************)
TagInputs == {PyNone, PyStr(""), PyStr("not json"), PyStr("[\"t1\"]"),
              PyStr("{\"a\":1}"), PyStr("7")}

AcceptedFiles == {f \in Files : validate_file_type(f).ok /\ validate_file_size(f).ok}

Videos == {f \in AcceptedFiles : validate_file_type(f).kind = "video"}

\* json.loads on the tag texts of the model.
json_loads(text) ==
    CASE text = "[\"t1\"]"  -> [ok |-> TRUE, value |-> PyList(<<"t1">>)]
      [] text = "{\"a\":1}" -> [ok |-> TRUE, value |-> PyDict]
      [] text = "7"         -> [ok |-> TRUE, value |-> PyInt(7)]
      [] OTHER              -> [ok |-> FALSE, raised |-> "JSONDecodeError"]

\* Truthiness of an Optional[str].
Truthy(x) == x # PyNone /\ x # PyStr("")

\* Lines 40-50: parsed_tags, or the exception that leaves the inner try.
parse_tags(tags) ==
    IF ~Truthy(tags) THEN [raised |-> "none", value |-> PyNone]
    ELSE LET r == json_loads(tags.v)
         IN  IF ~r.ok
             THEN [raised |-> "HTTPException", status |-> 400,
                   detail |-> "Invalid tags format. Must be a JSON array."]
             ELSE IF r.value.t # "list"
             THEN [raised |-> "ValueError", detail |-> "Tags must be an array"]
             ELSE [raised |-> "none", value |-> r.value]

\* Lines 103-110: what upload_media answers to an exception.
upload_error(e) ==
    IF e.raised = "HTTPException"
    THEN [status |-> e.status, detail |-> e.detail]
    ELSE [status |-> 500, detail |-> "Failed to upload media: str(e)"]

\* A precheck that does not look at the size.
upload_precheck_unsized(file, tags) ==
    LET ty == validate_file_type(file)
        tg == parse_tags(tags)
    IN  IF ~ty.ok THEN [ok |-> FALSE, status |-> ty.status, detail |-> ty.detail]
        ELSE IF tg.raised # "none"
        THEN [ok |-> FALSE] @@ upload_error(tg)
        ELSE [ok |-> TRUE, media_kind |-> ty.kind, parsed_tags |-> tg.value]

\* Lines 33-50: everything upload_media does before its first collaborator call.
upload_precheck(file, tags) ==
    LET ty == validate_file_type(file)
        sz == validate_file_size(file)
        tg == parse_tags(tags)
    IN  IF ~ty.ok THEN [ok |-> FALSE, status |-> ty.status, detail |-> ty.detail]
        ELSE IF ~sz.ok
        THEN [ok |-> FALSE, status |-> sz.status, detail |-> sz.detail]
        ELSE IF tg.raised # "none"
        THEN [ok |-> FALSE] @@ upload_error(tg)
        ELSE [ok |-> TRUE, media_kind |-> ty.kind, parsed_tags |-> tg.value]

UploadResponse(user, file, tags, status, detail, log) ==
    [op |-> "upload", user |-> user, file |-> file, tags |-> tags,
     status |-> status, detail |-> detail, log |-> log]

\* Lines 32-59: validation, tag parsing and the upload of the file.
upload_media_start(user, file, description, tags, outcome) ==
    /\ Accepts
    /\ LET pre == upload_precheck(file, tags)
       IN  IF ~pre.ok
           THEN /\ outcome = "ok"      \* no call is made: nothing to fail
                /\ last' = UploadResponse(user, file, tags, pre.status,
                               pre.detail, <<>>)
                /\ UNCHANGED <<req, blobs, nextBlob>>
           ELSE /\ nextBlob <= MaxBlobs
                /\ \/ /\ outcome = "ok"
                      /\ nextBlob' = nextBlob + 1
                      /\ blobs' = blobs \cup {nextBlob}
                      /\ req' = Started(
                            [op |-> "upload",
                             pc |-> IF pre.media_kind = "image"
                                    THEN "thumbnail" ELSE "create_media",
                             user |-> user, file |-> file, tags |-> tags,
                             media_kind |-> pre.media_kind,
                             description |-> description,
                             parsed_tags |-> pre.parsed_tags,
                             uploaded_name |-> nextBlob,
                             uploaded_url |-> BlobUrl(nextBlob),
                             preview_url |-> PyNone,
                             log |-> <<Call("upload_file", nextBlob, TRUE)>>])
                      /\ last' = NoResponse
                   \/ /\ outcome = "Exception"
                      /\ UNCHANGED <<blobs, nextBlob>>
                      /\ req' = req
                      /\ last' = UploadResponse(user, file, tags, 500,
                                     "Failed to upload media: str(e)",
                                     <<Call("upload_file", 0, FALSE)>>)
    /\ UNCHANGED <<authVars, media, now, created, deleted>>

\* Lines 61-76: the thumbnail of an image; its upload may fail without harm.
upload_media_thumbnail(r, outcome) ==
    /\ r \in InFlight
    /\ r.op = "upload"
    /\ r.pc = "thumbnail"
    /\ \/ /\ outcome = "no_preview_data"
          /\ req' = Moved(r, [r EXCEPT !.pc = "create_media"])
          /\ UNCHANGED <<blobs, nextBlob>>
       \/ /\ outcome = "ok"
          /\ nextBlob <= MaxBlobs
          /\ nextBlob' = nextBlob + 1
          /\ blobs' = blobs \cup {nextBlob}
          /\ req' = Moved(r, [r EXCEPT !.pc = "create_media",
                                        !.preview_url = BlobUrl(nextBlob),
                                        !.log = Append(@,
                                            Call("upload_file", nextBlob, TRUE))])
       \/ /\ outcome = "Exception"
          /\ UNCHANGED <<blobs, nextBlob>>
          /\ req' = Moved(r, [r EXCEPT !.pc = "create_media",
                                        !.log = Append(@,
                                            Call("upload_file", 0, FALSE))])
    /\ last' = NoResponse
    /\ UNCHANGED <<authVars, media, now, created, deleted>>

\* Lines 78-110: the media document, create_media and the response.
upload_media_create(r, outcome) ==
    /\ r \in InFlight
    /\ r.op = "upload"
    /\ r.pc = "create_media"
    /\ now <= MaxClock
    /\ LET \* uuid4 gives an id no other record has; the model takes the number
           \* of the primary blob, which no other record has either.
           media_identifier == r.uploaded_name
           timestamp_iso == IsoTime(now)
           media_payload ==
               [id |-> media_identifier, userId |-> r.user,
                fileName |-> r.uploaded_name, mediaType |-> r.media_kind,
                blobUrl |-> r.uploaded_url, thumbnailUrl |-> r.preview_url,
                description |-> r.description, tags |-> r.parsed_tags,
                uploadedAt |-> timestamp_iso, updatedAt |-> timestamp_iso]
           log == Append(r.log,
                         Call("create_media", media_identifier, outcome = "ok"))
       IN  /\ now' = now + 1
           /\ \/ /\ outcome = "ok"
                 /\ media' = media \cup {media_payload}
                 /\ created' = created \cup
                        {[id |-> media_identifier, fileName |-> r.uploaded_name]}
                 /\ last' = UploadResponse(r.user, r.file, r.tags, 201, "",
                                log)
              \/ /\ outcome = "Exception"
                 /\ UNCHANGED <<media, created>>
                 /\ last' = UploadResponse(r.user, r.file, r.tags, 500,
                                "Failed to upload media: str(e)", log)
    /\ req' = Finished(r)
    /\ UNCHANGED <<authVars, blobs, nextBlob, deleted>>

(***************************************************************************)
(* GET /media/{media_id}                                                   *)
(***************************************************************************)
\* The ids a client can ask for: those an upload has answered with.
MediaIds == {c.id : c \in created}

MediaResponseOf(op, user, mid, owner, status, detail, log) ==
    [op |-> op, user |-> user, mid |-> mid, owner |-> owner,
     status |-> status, detail |-> detail, log |-> log]

\* Lines 179-190: the ownership check and the response.
get_media_by_id(user, mid) ==
    /\ Accepts
    /\ LET media_snapshot == fetch_and_verify_media_ownership(mid, user)
           log == <<Call("get_media", mid, TRUE)>>
       IN  IF media_snapshot.ok
           THEN last' = MediaResponseOf("get", user, mid, OwnerOf(mid), 200, "",
                            log)
           ELSE last' = MediaResponseOf("get", user, mid, OwnerOf(mid),
                            media_snapshot.status, media_snapshot.detail, log)
    /\ UNCHANGED <<req, authVars, mediaVars>>

(***************************************************************************)
(* PUT /media/{media_id}                                                   *)
(***************************************************************************)
UpdateInputs == [description : {PyNone, PyStr("d2")},
                 tags : {PyNone, PyList(<<"t2">>)}]

UpdateKeys(update_data) ==
    {"updatedAt"}
        \cup (IF update_data.description # PyNone THEN {"description"} ELSE {})
        \cup (IF update_data.tags # PyNone THEN {"tags"} ELSE {})

\* A payload that writes every field, given or not.
update_payload_all_fields(update_data, timestamp) ==
    [updatedAt |-> timestamp, description |-> update_data.description,
     tags |-> update_data.tags]

\* Lines 207-213: the payload holds updatedAt and the fields that are given.
update_payload(update_data, timestamp) ==
    [k \in UpdateKeys(update_data) |->
        CASE k = "updatedAt"   -> timestamp
          [] k = "description" -> update_data.description
          [] k = "tags"        -> update_data.tags]

\* Lines 202-213: the ownership check and the payload.
update_media_metadata_fetch(user, mid, update_data) ==
    /\ Accepts
    /\ LET existing_media == fetch_and_verify_media_ownership(mid, user)
           log == <<Call("get_media", mid, TRUE)>>
       IN  IF ~existing_media.ok
           THEN /\ last' = MediaResponseOf("update", user, mid, OwnerOf(mid),
                               existing_media.status, existing_media.detail, log)
                /\ UNCHANGED <<req, now>>
           ELSE /\ now <= MaxClock
                /\ now' = now + 1
                /\ req' = Started(
                      [op |-> "update", pc |-> "update_media", user |-> user,
                       mid |-> mid, owner |-> OwnerOf(mid),
                       update_data |-> update_data,
                       update_payload |-> update_payload(update_data,
                                                         IsoTime(now)),
                       log |-> log])
                /\ last' = NoResponse
    /\ UNCHANGED <<authVars, media, blobs, nextBlob, created, deleted>>

\* An exception mapping without the ValueError clause.
update_error_unmapped(e) ==
    [status |-> 500, detail |-> "Failed to update media"]

\* Lines 220-231: what update_media_metadata answers to an exception.
update_error(e) ==
    IF e = "ValueError" THEN [status |-> 404, detail |-> "str(e)"]
    ELSE [status |-> 500, detail |-> "Failed to update media"]

\* Lines 215-231: cosmos_db.update_media and the response.  The store raises
\* ValueError when the caller has no record of that id.
update_media_metadata_write(r, outcome) ==
    /\ r \in InFlight
    /\ r.op = "update"
    /\ r.pc = "update_media"
    /\ LET found == {d \in MediaById(r.mid) : d.userId = r.user}
           raised == IF outcome = "Exception" THEN "Exception"
                     ELSE IF found = {} THEN "ValueError" ELSE "none"
           log == Append(r.log, Call("update_media", r.mid, raised = "none"))
           resp == MediaResponseOf("update", r.user, r.mid, r.owner, 200, "", log)
                       @@ [update_data |-> r.update_data,
                           update_payload |-> r.update_payload,
                           raised |-> raised]
       IN  IF raised = "none"
           THEN LET d == CHOOSE x \in found : TRUE
                    updated_media == MergeUpdates(d, r.update_payload)
                IN  /\ media' = (media \ {d}) \cup {updated_media}
                    /\ last' = resp
           ELSE /\ media' = media
                /\ last' = [resp EXCEPT !.status = update_error(raised).status,
                                        !.detail = update_error(raised).detail]
    /\ req' = Finished(r)
    /\ UNCHANGED <<authVars, blobs, nextBlob, now, created, deleted>>

(***************************************************************************)
(* DELETE /media/{media_id}                                                *)
(***************************************************************************)
DeleteResponse(r, status, detail, log) ==
    MediaResponseOf("delete", r.user, r.mid, r.owner, status, detail, log)
        @@ [media_record |-> r.media_record]

DeleteFailed == [status |-> 500, detail |-> "Failed to delete media"]

\* A handler that reads the record without checking who owns it.
delete_media_fetch_unchecked(user, mid) ==
    /\ Accepts
    /\ LET log == <<Call("get_media", mid, TRUE)>>
       IN  IF MediaById(mid) = {}
           THEN /\ last' = MediaResponseOf("delete", user, mid, OwnerOf(mid),
                               NotFound.status, NotFound.detail, log)
                /\ req' = req
           ELSE /\ req' = Started(
                      [op |-> "delete", pc |-> "delete_primary", user |-> user,
                       mid |-> mid, owner |-> OwnerOf(mid),
                       media_record |-> CHOOSE x \in MediaById(mid) : TRUE,
                       log |-> log])
                /\ last' = NoResponse
    /\ UNCHANGED <<authVars, mediaVars>>

\* Lines 242-244: the ownership check.
delete_media_fetch(user, mid) ==
    /\ Accepts
    /\ LET media_record == fetch_and_verify_media_ownership(mid, user)
           log == <<Call("get_media", mid, TRUE)>>
       IN  IF ~media_record.ok
           THEN /\ last' = MediaResponseOf("delete", user, mid, OwnerOf(mid),
                               media_record.status, media_record.detail, log)
                /\ req' = req
           ELSE /\ req' = Started(
                      [op |-> "delete", pc |-> "delete_primary", user |-> user,
                       mid |-> mid, owner |-> OwnerOf(mid),
                       media_record |-> media_record.doc, log |-> log])
                /\ last' = NoResponse
    /\ UNCHANGED <<authVars, mediaVars>>

\* Lines 246-251 and 262-269: the primary blob; a failure ends the request.
delete_media_primary(r, outcome) ==
    /\ r \in InFlight
    /\ r.op = "delete"
    /\ r.pc = "delete_primary"
    /\ LET name == r.media_record.fileName
           log == Append(r.log, Call("delete_file", name, outcome = "ok"))
           preview_blob_id == extract_thumbnail_blob_identifier(r.media_record)
       IN  \/ /\ outcome = "ok"
              /\ blobs' = blobs \ {name}
              /\ req' = Moved(r, [r EXCEPT !.log = log,
                                            !.pc = IF preview_blob_id # 0
                                                   THEN "delete_thumbnail"
                                                   ELSE "delete_media"])
              /\ last' = NoResponse
           \/ /\ outcome = "Exception"
              /\ blobs' = blobs
              /\ req' = Finished(r)
              /\ last' = DeleteResponse(r, DeleteFailed.status,
                             DeleteFailed.detail, log)
    /\ UNCHANGED <<authVars, media, nextBlob, now, created, deleted>>

\* A thumbnail delete outside the inner try: its failure ends the request.
delete_media_thumbnail_fatal(r, outcome) ==
    /\ r \in InFlight
    /\ r.op = "delete"
    /\ r.pc = "delete_thumbnail"
    /\ LET preview_blob_id == extract_thumbnail_blob_identifier(r.media_record)
           log == Append(r.log,
                         Call("delete_file", preview_blob_id, outcome = "ok"))
       IN  \/ /\ outcome = "ok"
              /\ blobs' = blobs \ {preview_blob_id}
              /\ req' = Moved(r, [r EXCEPT !.log = log, !.pc = "delete_media"])
              /\ last' = NoResponse
           \/ /\ outcome = "Exception"
              /\ blobs' = blobs
              /\ req' = Finished(r)
              /\ last' = DeleteResponse(r, DeleteFailed.status,
                             DeleteFailed.detail, log)
    /\ UNCHANGED <<authVars, media, nextBlob, now, created, deleted>>

\* A handler that leaves the thumbnail blob alone.
delete_media_thumbnail_skipped(r, outcome) ==
    /\ r \in InFlight
    /\ r.op = "delete"
    /\ r.pc = "delete_thumbnail"
    /\ req' = Moved(r, [r EXCEPT !.pc = "delete_media"])
    /\ last' = NoResponse
    /\ UNCHANGED <<authVars, mediaVars>>

\* Lines 252-255: the thumbnail blob; a failure is logged and ignored.
delete_media_thumbnail(r, outcome) ==
    /\ r \in InFlight
    /\ r.op = "delete"
    /\ r.pc = "delete_thumbnail"
    /\ LET preview_blob_id == extract_thumbnail_blob_identifier(r.media_record)
           log == Append(r.log,
                         Call("delete_file", preview_blob_id, outcome = "ok"))
       IN  /\ \/ /\ outcome = "ok"
                 /\ blobs' = blobs \ {preview_blob_id}
              \/ /\ outcome = "Exception"
                 /\ blobs' = blobs
           /\ req' = Moved(r, [r EXCEPT !.log = log, !.pc = "delete_media"])
    /\ last' = NoResponse
    /\ UNCHANGED <<authVars, media, nextBlob, now, created, deleted>>

\* Lines 257-269: cosmos_db.delete_media and the response.
delete_media_record(r, outcome) ==
    /\ r \in InFlight
    /\ r.op = "delete"
    /\ r.pc = "delete_media"
    /\ LET log == Append(r.log, Call("delete_media", r.mid, outcome = "ok"))
       IN  \/ /\ outcome = "ok"
              /\ media' = {d \in media : ~(d.id = r.mid /\ d.userId = r.user)}
              /\ deleted' = deleted \cup {r.mid}
              /\ last' = DeleteResponse(r, 204, "", log)
           \/ /\ outcome = "Exception"
              /\ UNCHANGED <<media, deleted>>
              /\ last' = DeleteResponse(r, DeleteFailed.status,
                             DeleteFailed.detail, log)
    /\ req' = Finished(r)
    /\ UNCHANGED <<authVars, blobs, nextBlob, now, created>>

(***************************************************************************)
(* Specification of the media handlers.                                    *)
(***************************************************************************)
Outcomes == {"ok", "Exception"}

\* Uploads alone, over every file and every tag text of the model.
NextUpload ==
    \/ \E file \in Files, tags \in TagInputs, outcome \in Outcomes :
           upload_media_start(Uploader, file, PyNone, tags, outcome)
    \/ \E r \in InFlight, outcome \in {"no_preview_data", "ok", "Exception"} :
           upload_media_thumbnail(r, outcome)
    \/ \E r \in InFlight, outcome \in Outcomes : upload_media_create(r, outcome)

\* Upload, get and delete of images and videos.
NextDelete ==
    \/ \E file \in AcceptedFiles, outcome \in Outcomes :
           upload_media_start(Uploader, file, PyStr("d1"), PyStr("[\"t1\"]"), outcome)
    \/ \E r \in InFlight, outcome \in {"no_preview_data", "ok", "Exception"} :
           upload_media_thumbnail(r, outcome)
    \/ \E r \in InFlight, outcome \in Outcomes : upload_media_create(r, outcome)
    \/ \E user \in Callers, mid \in MediaIds : get_media_by_id(user, mid)
    \/ \E user \in Callers, mid \in MediaIds :
           delete_media_fetch(user, mid)
    \/ \E r \in InFlight, outcome \in Outcomes : delete_media_primary(r, outcome)
    \/ \E r \in InFlight, outcome \in Outcomes : delete_media_thumbnail(r, outcome)
    \/ \E r \in InFlight, outcome \in Outcomes : delete_media_record(r, outcome)

\* Upload, get, update and delete of videos (no thumbnail is made of a video).
NextUpdate ==
    \/ \E file \in Videos, outcome \in Outcomes :
           upload_media_start(Uploader, file, PyStr("d1"), PyStr("[\"t1\"]"), outcome)
    \/ \E r \in InFlight, outcome \in Outcomes : upload_media_create(r, outcome)
    \/ \E user \in Callers, mid \in MediaIds : get_media_by_id(user, mid)
    \/ \E user \in Callers, mid \in MediaIds,
          update_data \in UpdateInputs : update_media_metadata_fetch(user, mid, update_data)
    \/ \E r \in InFlight, outcome \in Outcomes : update_media_metadata_write(r, outcome)
    \/ \E user \in Callers, mid \in MediaIds :
           delete_media_fetch(user, mid)
    \/ \E r \in InFlight, outcome \in Outcomes : delete_media_primary(r, outcome)
    \/ \E r \in InFlight, outcome \in Outcomes : delete_media_record(r, outcome)

(***************************************************************************)
(* Initial state and the specifications.                                   *)
(***************************************************************************)
Init ==
    /\ users = {}
    /\ media = {}
    /\ blobs = {}
    /\ nextUser = 1
    /\ nextBlob = 1
    /\ now = 1
    /\ req = EmptyBag
    /\ last = NoResponse
    /\ created = {}
    /\ deleted = {}

NextAuth ==
    \/ \E email \in Emails, password \in Passwords :
           register_account_lookup(email, password)
    \/ \E r \in InFlight, outcome \in {"ok", "ValueError", "Exception"} :
           register_account_create(r, outcome)
    \/ \E email \in Emails, password \in Passwords : login_account_request(email, password)

SpecAuth == Init /\ [][NextAuth]_vars

SpecDelete == Init /\ [][NextDelete]_vars

SpecUpdate == Init /\ [][NextUpdate]_vars

SpecUpload == Init /\ [][NextUpload]_vars

(***************************************************************************)
(* Properties.                                                             *)
(***************************************************************************)
IsMediaRequest(l) == l.op \in {"get", "update", "delete"}

\* The request was made with the token of a user who is not the record's owner.
CrossUser(l) == IsMediaRequest(l) /\ l.owner \notin {"absent", l.user}

\* C1: a get, update or delete of a record made with another user's token
\* responds 404 after the ownership check and nothing else (no blob delete, no
\* document-store write), and the step that answers it leaves the media
\* records and the blobs as they were.
C1_CrossUserNotFound ==
    /\ [](CrossUser(last) =>
            /\ last.status = 404
            /\ last.log = <<Call("get_media", last.mid, TRUE)>>)
    /\ [](\A r \in InFlight : r.op \in {"update", "delete"} => r.owner = r.user)
    /\ [][CrossUser(last') => media' = media /\ blobs' = blobs]_vars

C1_Witness ==
    /\ last.op = "delete"
    /\ last.user = "B"
    /\ last.owner = "A"
    /\ last.status = 404
    /\ \E d \in MediaById(last.mid) : d.userId = "A" /\ d.fileName \in blobs

\* C2: no two account documents have the same email, and a register request
\* for an email that has an account is answered 400 without a create_user call.
C2_EmailUnique ==
    /\ \A u, w \in users : u.email = w.email => u = w
    /\ (last.op = "register" /\ last.existed) =>
            /\ last.status = 400
            /\ \A i \in 1..Len(last.log) : last.log[i].call # "create_user"

C2_RejectedWitness == last.op = "register" /\ last.existed

LoginFails(email, password) == LoginCause(email, password) # "none"

\* C3: a login turned down for an unknown email and a login turned down for a
\* wrong password get one and the same response, 401 "Invalid email or
\* password" with no token: in every state, any two failing logins are
\* answered alike.
C3_LoginFailuresAlike ==
    /\ (last.op = "login" /\ last.cause # "none") =>
            /\ last.status = 401
            /\ last.detail = "Invalid email or password"
            /\ last.token = PyNone
    /\ \A e1, e2 \in Emails, p1, p2 \in Passwords :
            LoginFails(e1, p1) /\ LoginFails(e2, p2)
                => login_account(e1, p1) = login_account(e2, p2)

C3_Witness ==
    /\ last.op = "login"
    /\ last.cause = "bad_password"
    /\ \E e \in Emails : LoginCause(e, "pw1") = "no_account"

\* The file is of a disallowed type or above the size limit.
Disallowed(file) == file.content_type = "text/plain" \/ file.size = "over_limit"

\* C4: an upload of a disallowed or oversized file is answered 400 with no call
\* to upload_file or create_media, it never gets as far as a collaborator
\* call, and the step that answers it leaves blobs and records as they were.
C4_RejectedBeforeBlobCall ==
    /\ []((last.op = "upload" /\ Disallowed(last.file)) =>
            /\ last.status = 400
            /\ last.log = <<>>)
    /\ [](\A r \in InFlight : r.op = "upload" => ~Disallowed(r.file))
    /\ [][(last'.op = "upload" /\ Disallowed(last'.file)) =>
            /\ blobs' = blobs
            /\ media' = media
            /\ req' = req]_vars

C4_Witness ==
    /\ last.op = "upload"
    /\ last.file = [content_type |-> "image/jpeg", size |-> "over_limit"]
    /\ last.status = 400

IsJsonArray(tags) == json_loads(tags.v).ok /\ json_loads(tags.v).value.t = "list"

\* C5: an upload of an accepted file whose tags field is given and is not a JSON
\* array (not JSON at all, or JSON that is no array) is answered 400 with no
\* blob uploaded and no record created.
C5_BadTagsBadRequest ==
    (/\ last.op = "upload"
     /\ ~Disallowed(last.file)
     /\ Truthy(last.tags)
     /\ ~IsJsonArray(last.tags)) =>
        /\ last.status = 400
        /\ last.log = <<>>

\* The part of C5 the handler meets: text that is not JSON.
C5_NotJsonWitness ==
    /\ last.op = "upload"
    /\ last.tags = PyStr("not json")
    /\ last.status = 400

RECURSIVE BlobDeletes(_)
\* The blob names the calls of a log asked the blob store to delete, in order.
BlobDeletes(log) ==
    IF log = <<>> THEN <<>>
    ELSE IF Head(log).call = "delete_file"
    THEN <<Head(log).arg>> \o BlobDeletes(Tail(log))
    ELSE BlobDeletes(Tail(log))

\* The blobs a media document names: its file, and its thumbnail if it has one.
NamedBlobs(doc) ==
    <<doc.fileName>> \o
        (IF doc.thumbnailUrl = PyNone THEN <<>> ELSE <<doc.thumbnailUrl.blob>>)

\* C6: a delete answered 204 has asked for the deletion of exactly the blobs
\* the record names (the file, then the thumbnail if and only if there is one),
\* then it has removed the record; the record stays absent and a get of its id
\* is answered 404.
C6_DeleteRemovesRecordAndBlobs ==
    /\ (last.op = "delete" /\ last.status = 204) =>
            /\ BlobDeletes(last.log) = NamedBlobs(last.media_record)
            /\ last.log[Len(last.log)] = Call("delete_media", last.mid, TRUE)
            /\ MediaById(last.mid) = {}
    /\ \A m \in deleted : MediaById(m) = {}
    /\ (last.op = "get" /\ last.mid \in deleted) => last.status = 404

C6_Witness ==
    /\ last.op = "delete"
    /\ last.status = 204
    /\ Len(NamedBlobs(last.media_record)) = 2
    /\ Len(BlobDeletes(last.log)) = 2

C6_GetWitness ==
    /\ last.op = "get"
    /\ last.user = Uploader
    /\ last.mid \in deleted
    /\ last.status = 404

NoDeleteInProgress == \A r \in InFlight : r.op # "delete"

\* C7: whenever no delete is in progress, a media record that was created is
\* in the document store if and only if its primary blob is in the blob store.
C7_RecordIffBlob ==
    NoDeleteInProgress =>
        \A c \in created : (MediaById(c.id) # {}) <=> (c.fileName \in blobs)

PrimaryDeleteFailed(l) ==
    /\ l.op = "delete"
    /\ Len(l.log) >= 2
    /\ ~l.log[2].ok

ThumbnailDeleteFailed(l) ==
    /\ l.op = "delete"
    /\ Len(l.log) >= 3
    /\ l.log[2].ok
    /\ l.log[3].call = "delete_file"
    /\ ~l.log[3].ok

\* C8: a delete whose primary blob delete fails is answered 500 with no
\* thumbnail delete and no delete_media call, and its last step changes neither
\* records nor blobs; a delete whose thumbnail blob delete fails still calls
\* delete_media, and when that call returns the record is gone and the answer
\* is 204.
C8_PrimaryFatalThumbnailNot ==
    /\ [](PrimaryDeleteFailed(last) =>
            /\ last.status = 500
            /\ Len(last.log) = 2)
    /\ [][PrimaryDeleteFailed(last') => media' = media /\ blobs' = blobs]_vars
    /\ [](ThumbnailDeleteFailed(last) =>
            /\ Len(last.log) = 4
            /\ last.log[4].call = "delete_media"
            /\ last.log[4].ok =>
                   /\ last.status = 204
                   /\ MediaById(last.mid) = {})

C8_Witness ==
    /\ ThumbnailDeleteFailed(last)
    /\ last.status = 204
    /\ last.media_record.thumbnailUrl.blob \in blobs

C8_PrimaryWitness == PrimaryDeleteFailed(last) /\ last.status = 500

TheDoc(docs, mid) == CHOOSE d \in docs : d.id = mid

\* C9: an update answered 200 has sent a payload of updatedAt, description only
\* if given and tags only if given; the record after it is the record before
\* with those keys replaced, every other record is as before; and no step of
\* any handler changes the id, userId, fileName, blobUrl, thumbnailUrl or
\* uploadedAt of a record.
C9_UpdateOnlyGivenFields ==
    /\ [][(last'.op = "update" /\ last'.status = 200) =>
            LET u == last'.update_data
                sent == last'.update_payload
                before == TheDoc(media, last'.mid)
                after == TheDoc(media', last'.mid)
            IN  /\ "updatedAt" \in DOMAIN sent
                /\ "description" \in DOMAIN sent <=> u.description # PyNone
                /\ "tags" \in DOMAIN sent <=> u.tags # PyNone
                /\ DOMAIN sent \subseteq {"updatedAt", "description", "tags"}
                /\ after.updatedAt = sent.updatedAt
                /\ after.description = IF u.description = PyNone
                                       THEN before.description ELSE u.description
                /\ after.tags = IF u.tags = PyNone THEN before.tags ELSE u.tags
                /\ media' \ {after} = media \ {before}]_vars
    /\ [][\A d \in media, e \in media' : d.id = e.id =>
            /\ e.userId = d.userId
            /\ e.fileName = d.fileName
            /\ e.blobUrl = d.blobUrl
            /\ e.thumbnailUrl = d.thumbnailUrl
            /\ e.uploadedAt = d.uploadedAt
            /\ e.mediaType = d.mediaType]_vars

C9_Witness ==
    /\ last.op = "update"
    /\ last.status = 200
    /\ last.update_data = [description |-> PyNone, tags |-> PyList(<<"t2">>)]
    /\ TheDoc(media, last.mid).description = PyStr("d1")
    /\ TheDoc(media, last.mid).tags = PyList(<<"t2">>)

\* The response of an update whose update_media call has been made.
UpdateWrote(l) == l.op = "update" /\ Len(l.log) = 2

\* C10: an update whose ownership check passed and whose write reaches the
\* document store after a delete has removed the record leaves the record
\* absent, and is answered 404 when the store answers the write; a record a
\* delete has answered 204 for stays absent and a get of it is answered 404.
C10_UpdateAfterDeleteNotFound ==
    /\ [][(UpdateWrote(last') /\ MediaById(last'.mid) = {}) =>
            /\ media' = media
            /\ last'.raised # "none"
            /\ last'.raised = "ValueError" => last'.status = 404]_vars
    /\ [](\A m \in deleted : MediaById(m) = {})
    /\ []((last.op = "get" /\ last.mid \in deleted) => last.status = 404)

C10_Witness ==
    /\ UpdateWrote(last)
    /\ last.mid \in deleted
    /\ last.raised = "ValueError"
    /\ last.status = 404

====
